---- MODULE Spec2Model ----
(***************************************************************************)
(* Campus Meal Pick: the stored state (profiles, user_preferences,        *)
(* ratings), the Pages Functions that write it (GET /api/rate,            *)
(* POST /api/preferences, PATCH /api/profile, DELETE /api/ratings,        *)
(* GET /api/unsubscribe), the onboarding form that feeds                  *)
(* POST /api/preferences, and the daily run's per-user Preference Vector  *)
(* Builder and scorer.  Further specifications over the same variables    *)
(* cover the stages of the daily run (StageSpec), the dish catalog        *)
(* (CatalogSpec), the KV subscription Worker (WorkerSpec) and the         *)
(* Dashboard's preference form (DashboardSpec).                           *)
(*                                                                         *)
(* Every await on the store is one step: a handler that awaits two writes *)
(* is two actions, and other requests and the daily run interleave        *)
(* between them.  Every write may fail (ok = FALSE) and then changes      *)
(* nothing.  Timestamps (updated_at, created_at) are left out; created_at *)
(* order is the order of the generated ids.                               *)
(*                                                                         *)
(* Numbers: a slider score s is kept as score2 = 2*s (so 5.5 is 11), a    *)
(* strength x as 9*x (so 1.0 is StrengthUnit).                            *)
(***************************************************************************)
EXTENDS Integers, Sequences, FiniteSets, TLC

\* ------------------------------------------------------------------ bounds
MaxRequests == 2
\* the largest rating count the weight lookup is tried on
MaxRatingCount == 41

\* --------------------------------------------------------------- universe
Users == {"u1", "u2"}
NoUser == "anon"
Emails == Users \cup {"nobody"}
Dishes == {"d1", "d2"}
Today == "day1"
Dates == {"day1", "day2"}

\* profiles: id and email coincide in the model; "nobody" has no profile
ProfileIdOf(email) == IF email \in Users THEN {email} ELSE {}

\* daily_menus rows: id -> dish_id, menu_date
DailyMenus ==
  { [id |-> "m1", dish_id |-> "d1", menu_date |-> "day1"] }

\* dishes.is_onboarding_dish = TRUE, in the order the endpoint returns them
OnboardingDishes == <<"d1">>

StrengthUnit == 9

\* (...).trim().toLowerCase() of an email parameter: the one raw spelling the
\* links of the model use, " U1", becomes "u1"; the others are in normal form
trimLower(raw) == IF raw = " U1" THEN "u1" ELSE raw

\* ------------------------------------------------------------------ hmac
\* hmacSign: the hex HMAC-SHA256 of data under HMAC_SECRET, one string per input
hmacSign(data) == "hmac:" \o data

\* a check that the token is a signature of the secret, of whatever address
hmacVerify_AnySigned(data, token) == \E e \in Emails : token = hmacSign(e)

\* every hex HMAC-SHA256 has 64 characters; the empty token has none
hmacVerify_LengthOnly(data, token) == token # ""

hmacVerify(data, token) == hmacSign(data) = token

Tokens == {hmacSign(e) : e \in Emails} \cup {""}

\* ------------------------------------------------------ user_preferences
PrefCols == {"cuisine_weights", "flavor_weights", "method_weights",
             "initial_ingredients", "dietary_restrictions",
             "preference_vector", "vector_stale"}

EmptyWeights == [t \in {} |-> 1]
NullVector == << >>

\* column defaults of a freshly inserted user_preferences row
PrefDefaults ==
  [cuisine_weights |-> EmptyWeights, flavor_weights |-> EmptyWeights,
   method_weights |-> EmptyWeights, initial_ingredients |-> {},
   dietary_restrictions |-> {}, preference_vector |-> NullVector,
   vector_stale |-> TRUE]

\* supabase upsert(..., {onConflict: 'user_id'}): INSERT ... ON CONFLICT
\* (user_id) DO UPDATE SET <the columns of the payload>
UpsertPrefs_ReplaceRow(table, u, cols) ==
  [v \in DOMAIN table \cup {u} |->
     IF v # u THEN table[v]
     ELSE [c \in PrefCols |->
             IF c \in DOMAIN cols THEN cols[c] ELSE PrefDefaults[c]]]

UpsertPrefs(table, u, cols) ==
  [v \in DOMAIN table \cup {u} |->
     IF v # u THEN table[v]
     ELSE [c \in PrefCols |->
             IF c \in DOMAIN cols THEN cols[c]
             ELSE IF u \in DOMAIN table THEN table[u][c]
             ELSE PrefDefaults[c]]]

\* ---------------------------------------------------------------- ratings
\* a ratings row: [id, user_id, dish_id, menu_date, rating, strength]
RowsAt(table, u, d, day) ==
  {r \in table : r.user_id = u /\ r.dish_id = d /\ r.menu_date = day}

\* one payload row through upsert(..., {onConflict:
\* 'user_id,dish_id,menu_date'}): cols holds rating and, for the onboarding
\* rows only, strength; an absent column keeps its stored value on conflict
\* and takes its default (strength 1.0) on insert.  Returns <<table, nextId>>.
UpsertRating_AlwaysInsert(table, id, u, d, day, cols) ==
  << table \cup
       {[id |-> id, user_id |-> u, dish_id |-> d, menu_date |-> day,
         rating |-> cols.rating,
         strength |-> IF "strength" \in DOMAIN cols THEN cols.strength
                      ELSE StrengthUnit]},
     id + 1 >>

UpsertRating(table, id, u, d, day, cols) ==
  IF RowsAt(table, u, d, day) # {}
  THEN << (table \ RowsAt(table, u, d, day)) \cup
            {[r EXCEPT !.rating = cols.rating,
                       !.strength = IF "strength" \in DOMAIN cols
                                    THEN cols.strength ELSE r.strength]
               : r \in RowsAt(table, u, d, day)},
          id >>
  ELSE << table \cup
            {[id |-> id, user_id |-> u, dish_id |-> d, menu_date |-> day,
              rating |-> cols.rating,
              strength |-> IF "strength" \in DOMAIN cols THEN cols.strength
                           ELSE StrengthUnit]},
          id + 1 >>

\* ----------------------------------------------------------------- state
VARIABLES
  profiles,   \* user -> [subscribed]
  prefs,      \* user_preferences: user -> row, for the users that have one
  ratings,    \* the ratings table
  nextId,     \* ratings.id GENERATED ALWAYS AS IDENTITY
  req,        \* requests between two awaits: user -> continuation
  run,        \* users the daily run is processing: user -> position
  resp,       \* the last response sent: [op, status]
  nreq,       \* requests started
  pipe        \* the state outside the Pages store: the daily run's catalog
              \* and stage results, or the subscription Worker's KV

vars == <<profiles, prefs, ratings, nextId, req, run, resp, nreq, pipe>>

\* the batch side at rest
Idle == [stage |-> "idle"]

\* the store and the web side after deployment: no rows but the profiles
StoreInit ==
  /\ profiles = [u \in Users |-> [subscribed |-> TRUE]]
  /\ prefs = [u \in {} |-> PrefDefaults]
  /\ ratings = {}
  /\ nextId = 1
  /\ req = [u \in {} |-> [op |-> "none"]]
  /\ run = [u \in {} |-> [pc |-> "none"]]
  /\ resp = [op |-> "none", status |-> "none"]
  /\ nreq = 0

Init == StoreInit /\ pipe = Idle

Busy(u) == u \in DOMAIN req
Park(u, k) == [v \in DOMAIN req \cup {u} |-> IF v = u THEN k ELSE req[v]]
Unpark(u) == [v \in DOMAIN req \ {u} |-> req[v]]

\* ------------------------------------------------------- GET /api/rate
\* query strings of rating links: well-formed links (u1's for either date and
\* either thumb, one of u2's), and links with one parameter missing, unknown
\* or forged
RateInputs ==
  { [email |-> "u1", token |-> hmacSign("u1"), menu_id |-> "m1", date |-> d,
     rating |-> r] : d \in Dates, r \in {"up", "down"} }
  \cup
  { [email |-> "u2", token |-> hmacSign("u2"), menu_id |-> "m1",
     date |-> "day1", rating |-> "up"] }
  \cup
  { [email |-> "nobody", token |-> hmacSign("nobody"), menu_id |-> "m1",
     date |-> "day1", rating |-> "up"],
    [email |-> "u1", token |-> "", menu_id |-> "m1", date |-> "day1",
     rating |-> "up"],
    [email |-> "u1", token |-> hmacSign("u2"), menu_id |-> "m1",
     date |-> "day1", rating |-> "up"],
    [email |-> "u1", token |-> hmacSign("u1"), menu_id |-> "m9",
     date |-> "day1", rating |-> "up"],
    [email |-> "u1", token |-> hmacSign("u1"), menu_id |-> "",
     date |-> "day1", rating |-> "up"],
    [email |-> "u1", token |-> hmacSign("u1"), menu_id |-> "m1",
     date |-> "", rating |-> "up"],
    [email |-> "u1", token |-> hmacSign("u1"), menu_id |-> "m1",
     date |-> "day1", rating |-> ""],
    [email |-> "", token |-> hmacSign("u1"), menu_id |-> "m1",
     date |-> "day1", rating |-> "up"],
    [email |-> " U1", token |-> hmacSign("u1"), menu_id |-> "m1",
     date |-> "day1", rating |-> "up"],
    [email |-> " U1", token |-> hmacSign(" U1"), menu_id |-> "m1",
     date |-> "day1", rating |-> "up"] }

\* rate.js 5-56: validation, the two lookups and the ratings upsert
RateRequest(q, ok) ==
  /\ UNCHANGED pipe
  /\ nreq < MaxRequests
  /\ nreq' = nreq + 1
  /\ \A u \in ProfileIdOf(trimLower(q.email)) : ~Busy(u)
  /\ LET email == trimLower(q.email)
         menuEntry == {m \in DailyMenus : m.id = q.menu_id}
         valid == /\ email # "" /\ q.token # "" /\ q.menu_id # ""
                  /\ q.date # ""
                  /\ q.rating \in {"up", "down"}
                  /\ hmacVerify(email, q.token)
                  /\ ProfileIdOf(email) # {}
                  /\ menuEntry # {}
     IN IF ~valid \/ ~ok
        THEN /\ resp' = [op |-> "rate", status |-> "error"]
             /\ UNCHANGED <<profiles, prefs, ratings, nextId, req, run>>
        ELSE LET userId == CHOOSE u \in ProfileIdOf(email) : TRUE
                 dishId == (CHOOSE m \in menuEntry : TRUE).dish_id
                 ratingVal == IF q.rating = "up" THEN 1 ELSE -1
                 up == UpsertRating(ratings, nextId, userId, dishId, q.date,
                                    [rating |-> ratingVal])
             IN /\ ratings' = up[1]
                /\ nextId' = up[2]
                /\ req' = Park(userId,
                               [op |-> "rate", rating |-> q.rating,
                                dish_id |-> dishId, menu_date |-> q.date])
                /\ UNCHANGED <<profiles, prefs, run, resp>>

\* rate.js 58-64: the staleness upsert, its error ignored, and the redirect
RateMarkStale(u, ok) ==
  /\ UNCHANGED pipe
  /\ Busy(u) /\ req[u].op = "rate"
  /\ prefs' = IF ok THEN UpsertPrefs(prefs, u, [vector_stale |-> TRUE])
              ELSE prefs
  /\ resp' = [op |-> "rate",
              status |-> IF req[u].rating = "up" THEN "liked" ELSE "disliked"]
  /\ req' = Unpark(u)
  /\ UNCHANGED <<profiles, ratings, nextId, run, nreq>>

\* ------------------------------------------------ POST /api/preferences
Chosen(tags) == [t \in tags |-> 1]

\* WeightChips.toggle 8-16: a key with a truthy value is deleted, any other
\* key is set to 1.0
toggle(value, opt) ==
  IF opt \in DOMAIN value /\ value[opt] # 0
  THEN [t \in DOMAIN value \ {opt} |-> value[t]]
  ELSE [t \in DOMAIN value \cup {opt} |-> IF t = opt THEN 1 ELSE value[t]]

\* the onboarding form's state: nothing chosen, or one chip of each group
EmptyForm ==
  [cuisine_weights |-> EmptyWeights, flavor_weights |-> EmptyWeights,
   method_weights |-> EmptyWeights, ingredients |-> {},
   dietary_restrictions |-> {}]

Forms ==
  { EmptyForm,
    [cuisine_weights |-> toggle(EmptyWeights, "chinese"),
     flavor_weights |-> toggle(EmptyWeights, "spicy"),
     method_weights |-> toggle(EmptyWeights, "grilled"),
     ingredients |-> {"rice"},
     dietary_restrictions |-> {"vegan"}] }

\* DishSliders: integer scores 1..10, here the two ends of each direction
SliderScores == {1, 6}

\* the sliders the user moved: dish -> score, over some of the dishes shown
SliderStates ==
  UNION { [S -> SliderScores] :
            S \in SUBSET {OnboardingDishes[i] : i \in DOMAIN OnboardingDishes} }

\* submissions of the onboarding page: u1 with nothing chosen and no slider
\* moved, u1 with chips chosen and the slider at either end, u2 likewise with
\* the slider at 6
OnboardingInputs ==
  { [u |-> "u1", form |-> EmptyForm, sliders |-> << >>] }
  \cup { [u |-> "u1", form |-> f, sliders |-> sl] :
           f \in Forms \ {EmptyForm}, sl \in SliderStates \ {<< >>} }
  \cup { [u |-> "u2", form |-> f, sliders |-> [d \in {"d1"} |-> 6]] :
           f \in Forms \ {EmptyForm} }

\* OnboardingInner.handleSubmit 130-137: the moved sliders, then every dish
\* shown and not moved at score 5
handleSubmit(dishRatings) ==
  LET moved(d) == d \in DOMAIN dishRatings
      unmoved(d) == d \notin DOMAIN dishRatings
      entry(d) == [dish_id |-> d,
                   score2 |-> IF moved(d) THEN 2 * dishRatings[d] ELSE 2 * 5]
      seqMoved == SelectSeq(OnboardingDishes, moved)
      seqRest == SelectSeq(OnboardingDishes, unmoved)
  IN [i \in DOMAIN seqMoved |-> entry(seqMoved[i])]
       \o [i \in DOMAIN seqRest |-> entry(seqRest[i])]

\* scores a request can carry that no slider produces: 0 and 5.5
RawScores2 == {0, 11}

RawDishRatings ==
  {<< >>} \cup
  { <<[dish_id |-> "d2", score2 |-> s]>> : s \in RawScores2 }

\* preferences.js 38-42: one dish_ratings entry to its ratings payload row
RatingRow(e) ==
  [rating |-> IF e.score2 >= 12 THEN 1 ELSE -1,
   strength |-> IF e.score2 >= 11 THEN e.score2 - 11 ELSE 11 - e.score2]

\* upsert(rows, ...): the payload rows in order, one statement; a payload that
\* names one triple twice is rejected by the store and writes nothing
RECURSIVE UpsertRatings(_, _, _, _, _)
UpsertRatings(table, id, u, day, entries) ==
  IF entries = << >> THEN <<table, id>>
  ELSE LET up == UpsertRating(table, id, u, Head(entries).dish_id, day,
                              RatingRow(Head(entries)))
       IN UpsertRatings(up[1], up[2], u, day, Tail(entries))

DistinctDishes(entries) ==
  \A i, j \in DOMAIN entries :
     entries[i].dish_id = entries[j].dish_id => i = j

\* preferences.js 3-34 (and 36, 52 when dish_ratings is empty); who is the
\* user of the bearer token, NoUser when requireAuth rejects it; explicit is
\* the set of dishes whose score the user chose
PrefsPost(who, form, dishRatings, explicit, ok) ==
  /\ UNCHANGED pipe
  /\ nreq < MaxRequests
  /\ nreq' = nreq + 1
  /\ who \in Users => ~Busy(who)
  /\ IF who = NoUser
     THEN /\ resp' = [op |-> "preferences", status |-> "401"]
          /\ UNCHANGED <<profiles, prefs, ratings, nextId, req, run>>
     ELSE IF ~ok
     THEN /\ resp' = [op |-> "preferences", status |-> "500"]
          /\ UNCHANGED <<profiles, prefs, ratings, nextId, req, run>>
     ELSE /\ prefs' = UpsertPrefs(prefs, who,
                        [cuisine_weights |-> form.cuisine_weights,
                         flavor_weights |-> form.flavor_weights,
                         method_weights |-> form.method_weights,
                         initial_ingredients |-> form.ingredients,
                         dietary_restrictions |-> form.dietary_restrictions,
                         vector_stale |-> TRUE])
          /\ IF Len(dishRatings) > 0
             THEN /\ req' = Park(who, [op |-> "preferences",
                                       dish_ratings |-> dishRatings,
                                       explicit |-> explicit])
                  /\ UNCHANGED resp
             ELSE /\ resp' = [op |-> "preferences", status |-> "ok"]
                  /\ UNCHANGED req
          /\ UNCHANGED <<profiles, ratings, nextId, run>>

\* the onboarding page submits its form
OnboardingSubmit(u, form, dishRatings, ok) ==
  PrefsPost(u, form, handleSubmit(dishRatings), DOMAIN dishRatings, ok)

\* any other client of the endpoint
PrefsPostDirect(who, form, dishRatings, ok) ==
  PrefsPost(who, form, dishRatings,
            {dishRatings[i].dish_id : i \in DOMAIN dishRatings}, ok)

\* preferences.js 36-52: the onboarding ratings upsert, its error non-fatal
PrefsPostRatings(u, ok) ==
  /\ UNCHANGED pipe
  /\ Busy(u) /\ req[u].op = "preferences"
  /\ LET up == UpsertRatings(ratings, nextId, u, Today, req[u].dish_ratings)
     IN IF ok /\ DistinctDishes(req[u].dish_ratings)
        THEN ratings' = up[1] /\ nextId' = up[2]
        ELSE UNCHANGED <<ratings, nextId>>
  /\ resp' = [op |-> "preferences", status |-> "ok"]
  /\ req' = Unpark(u)
  /\ UNCHANGED <<profiles, prefs, run, nreq>>

\* --------------------------------------------------- PATCH /api/profile
PrefFields == {"cuisine_weights", "flavor_weights", "method_weights",
               "dietary_restrictions"}

\* request bodies: the subscription toggle alone, one preference field alone,
\* what Dashboard.savePrefs sends (all five fields, the chips toggled on and
\* off), and a body no page of the app sends
PatchBodies ==
  { [subscribed |-> FALSE],
    [dietary_restrictions |-> {"vegan"}],
    [subscribed |-> TRUE, cuisine_weights |-> toggle(EmptyWeights, "chinese"),
     flavor_weights |-> toggle(Chosen({"spicy"}), "spicy"),
     method_weights |-> toggle(EmptyWeights, "fried"),
     dietary_restrictions |-> {}],
    [cuisine_weights |-> [t \in {"thai"} |-> -1],
     flavor_weights |-> [t \in {"sweet"} |-> 0]] }

\* PATCH requests: every body from u1 and without a token, the two
\* one-field bodies from u2
PatchRequests ==
  { [who |-> w, body |-> b] : w \in {"u1", NoUser}, b \in PatchBodies }
  \cup { [who |-> "u2", body |-> b] :
           b \in {x \in PatchBodies : Cardinality(DOMAIN x) = 1} }

\* part_006 22-31: the preference columns of the body, plus the flag
prefUpdate_ClearFlag(body) ==
  [f \in (DOMAIN body \cap PrefFields) \cup {"vector_stale"} |->
     IF f = "vector_stale" THEN FALSE ELSE body[f]]

prefUpdate(body) ==
  [f \in (DOMAIN body \cap PrefFields) \cup {"vector_stale"} |->
     IF f = "vector_stale" THEN TRUE ELSE body[f]]

\* part_006 29-43: the user_preferences upsert and the response
PatchPrefsWrite(u, body, ok) ==
  /\ IF DOMAIN body \cap PrefFields # {} /\ ok
     THEN prefs' = UpsertPrefs(prefs, u, prefUpdate(body))
     ELSE UNCHANGED prefs
  /\ resp' = [op |-> "profile",
              status |-> IF DOMAIN body \cap PrefFields # {} /\ ~ok
                         THEN "500" ELSE "ok"]

\* part_006 3-20, and 22-43 too when the body has no subscribed field
ProfilePatch(who, body, ok) ==
  /\ UNCHANGED pipe
  /\ nreq < MaxRequests
  /\ nreq' = nreq + 1
  /\ who \in Users => ~Busy(who)
  /\ IF who = NoUser
     THEN /\ resp' = [op |-> "profile", status |-> "401"]
          /\ UNCHANGED <<profiles, prefs, ratings, nextId, req, run>>
     ELSE IF "subscribed" \in DOMAIN body
     THEN IF ~ok
          THEN /\ resp' = [op |-> "profile", status |-> "500"]
               /\ UNCHANGED <<profiles, prefs, ratings, nextId, req, run>>
          ELSE /\ profiles' = [profiles EXCEPT
                                 ![who].subscribed = body.subscribed]
               /\ req' = Park(who, [op |-> "profile", body |-> body])
               /\ UNCHANGED <<prefs, ratings, nextId, run, resp>>
     ELSE /\ PatchPrefsWrite(who, body, ok)
          /\ UNCHANGED <<profiles, ratings, nextId, req, run>>

\* part_006 22-43 after the profiles update
ProfilePatchPrefs(u, ok) ==
  /\ UNCHANGED pipe
  /\ Busy(u) /\ req[u].op = "profile"
  /\ PatchPrefsWrite(u, req[u].body, ok)
  /\ req' = Unpark(u)
  /\ UNCHANGED <<profiles, ratings, nextId, run, nreq>>

\* --------------------------------------------------- DELETE /api/ratings
\* ratings.js 23-56
\* The ownership select and the delete are one step: ids are never reused, so
\* the row selected is the row deleted.
\* the rating_id parameter as it arrives: missing, not a number, zero, the ids
\* the table can hold, and an id followed by other characters
RawRatingIds == {"", "abc", "0", "1", "2", "3", "4", "1abc"}

NaN == -1

\* parseInt(raw, 10): the leading decimal digits, NaN when there are none
parseInt(raw) ==
  IF raw \in {"1", "1abc"} THEN 1
  ELSE IF raw = "2" THEN 2
  ELSE IF raw = "3" THEN 3
  ELSE IF raw = "4" THEN 4
  ELSE IF raw = "0" THEN 0
  ELSE NaN

\* a handler that deletes the row of the id without looking at its owner
RatingsDelete_NoOwnerCheck(who, ratingId, ok) ==
  /\ UNCHANGED pipe
  /\ nreq < MaxRequests
  /\ nreq' = nreq + 1
  /\ LET existing == {r \in ratings : r.id = ratingId}
         status ==
           IF who = NoUser THEN "401"
           ELSE IF ratingId = 0 \/ ratingId = NaN THEN "400"
           ELSE IF existing = {} THEN "404"
           ELSE IF ~ok THEN "500"
           ELSE "ok"
     IN /\ ratings' = IF status = "ok" THEN ratings \ existing ELSE ratings
        /\ resp' = [op |-> "ratings", status |-> status]
  /\ UNCHANGED <<profiles, prefs, nextId, req, run>>

\* ratings.js 23-56: ownership is read first, then the row is deleted; ok is
\* the outcome of the delete
RatingsDelete(who, ratingId, ok) ==
  /\ UNCHANGED pipe
  /\ nreq < MaxRequests
  /\ nreq' = nreq + 1
  /\ LET existing == {r \in ratings : r.id = ratingId}
         status ==
           IF who = NoUser THEN "401"
           ELSE IF ratingId = 0 \/ ratingId = NaN THEN "400"
           ELSE IF existing = {} THEN "404"
           ELSE IF \E r \in existing : r.user_id # who THEN "403"
           ELSE IF ~ok THEN "500"
           ELSE "ok"
     IN /\ ratings' = IF status = "ok" THEN ratings \ existing ELSE ratings
        /\ resp' = [op |-> "ratings", status |-> status]
  /\ UNCHANGED <<profiles, prefs, nextId, req, run>>

\* ------------------------------------------------- GET /api/unsubscribe
UnsubInputs ==
  { [email |-> e, token |-> hmacSign(e)] : e \in Emails }
  \cup { [email |-> "u1", token |-> ""], [email |-> "u1", token |-> hmacSign("u2")],
         [email |-> "", token |-> hmacSign("u1")],
         [email |-> " U1", token |-> hmacSign("u1")],
         [email |-> " U1", token |-> hmacSign(" U1")] }

\* unsubscribe.js 19-22: update({subscribed: false}).eq('email', email)
UnsubscribeRows_NoFilter(table, email) ==
  [u \in DOMAIN table |-> [table[u] EXCEPT !.subscribed = FALSE]]

UnsubscribeRows(table, email) ==
  [u \in DOMAIN table |->
     IF u \in ProfileIdOf(email)
     THEN [table[u] EXCEPT !.subscribed = FALSE]
     ELSE table[u]]

\* unsubscribe.js 4-30
Unsubscribe(q, ok) ==
  /\ UNCHANGED pipe
  /\ nreq < MaxRequests
  /\ nreq' = nreq + 1
  /\ LET email == trimLower(q.email)
         valid == email # "" /\ q.token # "" /\ hmacVerify(email, q.token)
     IN /\ profiles' = IF valid /\ ok THEN UnsubscribeRows(profiles, email)
                       ELSE profiles
        /\ resp' = [op |-> "unsubscribe",
                    status |-> IF valid /\ ok THEN "success" ELSE "error"]
  /\ UNCHANGED <<prefs, ratings, nextId, req, run>>

\* ------------------------------------------- GET /api/admin/{menus,stats}
\* a comma-separated list, as the variable holds it
RECURSIVE Join(_)
Join(list) ==
  IF Len(list) = 0 THEN ""
  ELSE IF Len(list) = 1 THEN list[1]
  ELSE list[1] \o "," \o Join(Tail(list))

\* an environment variable that is not set
Unset == ""

\* the [vars] of the deployment: ADMIN_EMAILS as the README documents it, and
\* ADMIN_EMAIL, the variable requireAdmin reads, unset or holding the same
\* string
AdminLists == {<<"u1">>, <<"u1", "u2">>}

AdminEnvs ==
  UNION { { [ADMIN_EMAILS |-> Join(l), ADMIN_EMAIL |-> x] :
              x \in {Unset, Join(l)} } : l \in AdminLists }

\* part_004 62-69 (with requireAuth 46-57): the status of the check; a user's
\* email is their id in the model
requireAdmin(who, env) ==
  IF who = NoUser THEN "401"
  ELSE IF who # env.ADMIN_EMAIL THEN "403"
  ELSE "200"

\* menus.js 3-27 and part_005 3-99: the check, then for menus the date test,
\* then the reads; dbRead tells whether the handler got as far as a read
AdminGet(who, env, endpoint, date, ok) ==
  /\ UNCHANGED pipe
  /\ nreq < MaxRequests
  /\ nreq' = nreq + 1
  /\ LET auth == requireAdmin(who, env)
         badDate == endpoint = "menus" /\ date = ""
         status == IF auth # "200" THEN auth
                   ELSE IF badDate THEN "400"
                   ELSE IF endpoint = "menus" /\ ~ok THEN "500"
                   ELSE "200"
     IN resp' = [op |-> "admin", status |-> status,
                 dbRead |-> auth = "200" /\ ~badDate]
  /\ UNCHANGED <<profiles, prefs, ratings, nextId, req, run>>

\* requests to the two endpoints: stats from nobody and from each user under
\* every environment, menus from u1 with and without a date, with and without
\* a database error
AdminRequests ==
  { [who |-> w, env |-> e, endpoint |-> "stats", date |-> "", ok |-> TRUE] :
      w \in Users \cup {NoUser}, e \in AdminEnvs }
  \cup
  { [who |-> "u1", env |-> [ADMIN_EMAILS |-> "u1", ADMIN_EMAIL |-> "u1"],
     endpoint |-> "menus", date |-> d, ok |-> ok] :
      d \in {"", "day1"}, ok \in BOOLEAN }

\* ------------------------------------------------ /auth/callback (React)
\* what the URL hash of the callback carries
CallbackHashes == {"error", "no_token", "token"}

\* callbacks: an error, a hash without token, a token setSession refuses, and
\* each user's good token with the select working or failing
CallbackInputs ==
  { [u |-> "u1", hash |-> h, sessionOk |-> TRUE, selectOk |-> TRUE] :
      h \in {"error", "no_token"} }
  \cup { [u |-> "u1", hash |-> "token", sessionOk |-> FALSE, selectOk |-> TRUE] }
  \cup { [u |-> u, hash |-> "token", sessionOk |-> TRUE, selectOk |-> ok] :
           u \in Users, ok \in BOOLEAN }

\* part_008 65-75: the page's own select on user_preferences (row level
\* security shows a user their own row only); a failed select gives data null
prefsSelect(table, u, ok) == IF ok /\ u \in DOMAIN table THEN {u} ELSE {}

\* AuthCallback.handleCallback, part_008 38-76; u is the user of the access
\* token; the status of the response is the route navigated to
AuthCallback(u, hash, sessionOk, selectOk) ==
  /\ UNCHANGED pipe
  /\ nreq < MaxRequests
  /\ nreq' = nreq + 1
  /\ resp' = [op |-> "callback",
              status |-> IF hash = "error" THEN "none"
                         ELSE IF hash = "no_token" THEN "none"
                         ELSE IF ~sessionOk THEN "none"
                         ELSE IF prefsSelect(prefs, u, selectOk) # {}
                         THEN "/dashboard"
                         ELSE "/onboarding"]
  /\ UNCHANGED <<profiles, prefs, ratings, nextId, req, run>>

\* ------------------------------------------- the daily run, per user
\* The run's code (recommend_daily.py) is not among the sources; this part
\* follows the design document, sections 4.3 and 2 (control flow).
\* toy catalog: 2-dim embeddings and ingredient sets of the two dishes
Embedding(d) == IF d = "d1" THEN <<1, 0>> ELSE <<0, 1>>
DishIngredients(d) == IF d = "d1" THEN {"rice", "pork"} ELSE {"beef"}

DecayNum == 19
DecayDen == 20

RECURSIVE Pow(_, _)
Pow(b, n) == IF n = 0 THEN 1 ELSE b * Pow(b, n - 1)

\* a user has at most one rating per (dish, day), so ranks stay below this
MaxRank == Cardinality(Dishes) * Cardinality(Dates) - 1
\* mean over 1..|Dishes| dishes without fractions
MeanScale == Cardinality(Dishes)

UserRatings(table, u) == {r \in table : r.user_id = u}

\* zero-based rank in recency order, most recent first
Rank(rows, r) == Cardinality({x \in rows : x.id > r.id})

Scale(k, v) == <<k * v[1], k * v[2]>>
Add(v, w) == <<v[1] + w[1], v[2] + w[2]>>

MatchingDishes(ingredients) ==
  {d \in Dishes : DishIngredients(d) \cap ingredients # {}}

RECURSIVE SumEmbeddings(_)
SumEmbeddings(M) ==
  IF M = {} THEN <<0, 0>>
  ELSE LET d == CHOOSE x \in M : TRUE
       IN Add(Embedding(d), SumEmbeddings(M \ {d}))

\* mean embedding of the dishes matching any token, zero when none match
base_vector(ingredients) ==
  LET M == MatchingDishes(ingredients)
  IN IF M = {} THEN <<0, 0>>
     ELSE Scale((StrengthUnit * Pow(DecayDen, MaxRank) * MeanScale)
                  \div Cardinality(M),
                SumEmbeddings(M))

\* direction_i * strength_i * decay^i * embedding_i, i the rank of r in rows
Term(rows, r) ==
  Scale(r.rating * r.strength * Pow(DecayNum, Rank(rows, r))
          * Pow(DecayDen, MaxRank - Rank(rows, r)) * MeanScale,
        Embedding(r.dish_id))

RECURSIVE SumTerms(_, _)
SumTerms(S, rows) ==
  IF S = {} THEN <<0, 0>>
  ELSE LET r == CHOOSE x \in S : TRUE
       IN Add(Term(rows, r), SumTerms(S \ {r}, rows))

\* pref = SUM direction_i * strength_i * decay^i * embedding_i + base_vector,
\* every term times StrengthUnit * DecayDen^MaxRank * MeanScale
PrefVector(rows, ingredients) ==
  Add(SumTerms(rows, rows), base_vector(ingredients))

HasSignal(rows, ingredients) ==
  rows # {} \/ MatchingDishes(ingredients) # {}

\* what the run does with a user: score with the cached vector when it is
\* valid, else rebuild, else (no signal) hand over to the cold-start resolver
Route_TrustCache(stale, vector, signal) ==
  IF vector # NullVector THEN "score"
  ELSE IF signal THEN "write" ELSE "cold"

Route(stale, vector, signal) ==
  IF ~stale /\ vector # NullVector THEN "score"
  ELSE IF signal THEN "write" ELSE "cold"

\* get_preferences and get_ratings for one user, and the Builder's sum; the
\* run takes its users one after the other (per-user work shares no state)
RunLoad(u) ==
  /\ UNCHANGED pipe
  /\ DOMAIN run = {}
  /\ LET row == IF u \in DOMAIN prefs THEN prefs[u] ELSE PrefDefaults
         rows == UserRatings(ratings, u)
         pc == Route(row.vector_stale, row.preference_vector,
                     HasSignal(rows, row.initial_ingredients))
     IN run' = [v \in DOMAIN run \cup {u} |->
                  IF v # u THEN run[v]
                  ELSE [pc |-> pc,
                        vec |-> IF pc = "score" THEN row.preference_vector
                                ELSE IF pc = "write"
                                THEN PrefVector(rows, row.initial_ingredients)
                                ELSE NullVector,
                        startStale |-> row.vector_stale,
                        recomputed |-> FALSE]]
  /\ UNCHANGED <<profiles, prefs, ratings, nextId, req, resp, nreq>>

\* the Builder's write-back: the vector and the cleared flag in one write
BuilderWrite(u) ==
  /\ UNCHANGED pipe
  /\ u \in DOMAIN run /\ run[u].pc = "write"
  /\ prefs' = UpsertPrefs(prefs, u, [preference_vector |-> run[u].vec,
                                     vector_stale |-> FALSE])
  /\ run' = [run EXCEPT ![u].pc = "score", ![u].recomputed = TRUE]
  /\ UNCHANGED <<profiles, ratings, nextId, req, resp, nreq>>

\* the Hybrid Scorer ranks the day's dishes for u with run[u].vec
Score(u) ==
  /\ UNCHANGED pipe
  /\ u \in DOMAIN run /\ run[u].pc = "score"
  /\ run' = [v \in DOMAIN run \ {u} |-> run[v]]
  /\ UNCHANGED <<profiles, prefs, ratings, nextId, req, resp, nreq>>

\* the Cold-Start Resolver ranks for u, no vector involved
ColdStart(u) ==
  /\ UNCHANGED pipe
  /\ u \in DOMAIN run /\ run[u].pc = "cold"
  /\ run' = [v \in DOMAIN run \ {u} |-> run[v]]
  /\ UNCHANGED <<profiles, prefs, ratings, nextId, req, resp, nreq>>

Next ==
  \/ \E q \in RateInputs, ok \in BOOLEAN : RateRequest(q, ok)
  \/ \E u \in Users, ok \in BOOLEAN : RateMarkStale(u, ok)
  \/ \E o \in OnboardingInputs, ok \in BOOLEAN :
       OnboardingSubmit(o.u, o.form, o.sliders, ok)
  \/ \E who \in {"u1", NoUser}, dr \in RawDishRatings, ok \in BOOLEAN :
       PrefsPostDirect(who, EmptyForm, dr, ok)
  \/ \E u \in Users, ok \in BOOLEAN : PrefsPostRatings(u, ok)
  \/ \E p \in PatchRequests, ok \in BOOLEAN :
       ProfilePatch(p.who, p.body, ok)
  \/ \E u \in Users, ok \in BOOLEAN : ProfilePatchPrefs(u, ok)
  \/ \E who \in Users \cup {NoUser}, raw \in RawRatingIds, ok \in BOOLEAN :
       RatingsDelete(who, parseInt(raw), ok)
  \/ \E q \in UnsubInputs, ok \in BOOLEAN : Unsubscribe(q, ok)
  \/ \E c \in CallbackInputs :
       AuthCallback(c.u, c.hash, c.sessionOk, c.selectOk)
  \/ \E a \in AdminRequests :
       AdminGet(a.who, a.env, a.endpoint, a.date, a.ok)
  \/ \E u \in Users : RunLoad(u)
  \/ \E u \in Users : BuilderWrite(u)
  \/ \E u \in Users : Score(u)
  \/ \E u \in Users : ColdStart(u)

Spec == Init /\ [][Next]_vars

\* ================================= the stages of the daily run, one by one
\* The stages live in recommend_daily.py, which is not among the sources;
\* they follow the design document, sections 4.4 to 4.6 and 8.
storevars == <<profiles, prefs, ratings, nextId, req, run, resp, nreq>>

\* ---------------------------------------------------- 4.5 Dietary Filter
DietaryRestrictions == {"vegan", "vegetarian", "gluten-free"}
DietaryAttrs == {"contains-dairy", "contains-meat", "contains-gluten",
                 "vegetarian"}

\* the contradiction table: restriction -> the attrs that contradict it
ContradictionTable ==
  [r \in DietaryRestrictions |->
     IF r = "vegan" THEN {"contains-dairy", "contains-meat"}
     ELSE IF r = "vegetarian" THEN {"contains-meat"}
     ELSE {"contains-gluten"}]

\* a dish without attrs fails every restriction the user has
DietaryFilter_UnknownFails(restrictions, attrs) ==
  IF \E r \in restrictions : attrs = {} \/ ContradictionTable[r] \cap attrs # {}
  THEN "ineligible" ELSE "eligible"

DietaryFilter(restrictions, attrs) ==
  IF attrs = {} THEN "eligible"
  ELSE IF \E r \in restrictions : ContradictionTable[r] \cap attrs # {}
  THEN "ineligible"
  ELSE "eligible"

FilterInputs ==
  { [stage |-> "filter", restrictions |-> r, attrs |-> a, out |-> "none"] :
      r \in SUBSET DietaryRestrictions, a \in SUBSET DietaryAttrs }

\* the filter gates one (user, dish) pair
ApplyFilter ==
  /\ pipe.stage = "filter" /\ pipe.out = "none"
  /\ pipe' = [pipe EXCEPT !.out = DietaryFilter(pipe.restrictions, pipe.attrs)]
  /\ UNCHANGED storevars

\* ------------------------------- 4.4 the weight-by-confidence table
\* rows: the least rating count of the row, then (w_cos, w_flavor, w_method,
\* w_cuisine) in hundredths
WeightTable ==
  << [least |-> 0,  w |-> <<40, 20, 15, 25>>],
     [least |-> 15, w |-> <<60, 13, 9, 18>>],
     [least |-> 40, w |-> <<75, 8, 7, 10>>] >>

\* the row is chosen by "more than" instead of "at least"
HybridWeights_MoreThan(n) ==
  LET rows == {i \in DOMAIN WeightTable : i = 1 \/ WeightTable[i].least < n}
      last == CHOOSE i \in rows : \A j \in rows : j <= i
  IN WeightTable[last].w

\* the last row whose least count n reaches
HybridWeights(n) ==
  LET rows == {i \in DOMAIN WeightTable : WeightTable[i].least <= n}
      last == CHOOSE i \in rows : \A j \in rows : j <= i
  IN WeightTable[last].w

\* a user's rating count, and whether the user has any tag weights set
WeightInputs ==
  { [stage |-> "weights", n |-> n, tagged |-> t, out |-> << >>] :
      n \in 0..MaxRatingCount, t \in BOOLEAN }

SelectWeights ==
  /\ pipe.stage = "weights" /\ pipe.out = << >>
  /\ pipe' = [pipe EXCEPT !.out = HybridWeights(pipe.n)]
  /\ UNCHANGED storevars

\* -------------------------------------------------- 4.6 Eatery Aggregator
Buckets == {"lunch", "dinner"}
\* the eateries, in lexical order of their names
EateryNames == <<"becker", "bethe", "cook", "keeton", "rose">>
Eateries == {EateryNames[i] : i \in DOMAIN EateryNames}
NameRank(e) == CHOOSE i \in DOMAIN EateryNames : EateryNames[i] = e

TopDishCount == 3
TopEateryCount == 4

\* what an eatery serves in a bucket: its scored, already filtered dishes
OfferKinds == {"closed", "plain", "rich", "buffet"}
OfferRows(kind) ==
  IF kind = "closed" THEN {}
  ELSE IF kind = "plain"
  THEN { [dish |-> "rice bowl", score |-> 6, ingredients |-> {"rice"}] }
  ELSE IF kind = "rich"
  THEN { [dish |-> "curry", score |-> 6, ingredients |-> {"rice", "chicken"}] }
  ELSE { [dish |-> "roast", score |-> 9, ingredients |-> {"beef"}],
         [dish |-> "stew", score |-> 6, ingredients |-> {"beef", "carrot"}],
         [dish |-> "salad", score |-> 3, ingredients |-> {"lettuce"}],
         [dish |-> "ketchup", score |-> 0, ingredients |-> {"tomato"}] }

\* a day's scored menu: choice gives every eatery's lunch; its dinner is the
\* lunch of the next eatery in the list
MenuOf(choice) ==
  LET next(e) == EateryNames[(NameRank(e) % Len(EateryNames)) + 1]
      row(e, b, r) == [eatery |-> e, bucket |-> b, dish |-> r.dish,
                       score |-> r.score, ingredients |-> r.ingredients]
  IN UNION { {row(e, "lunch", r) : r \in OfferRows(choice[e])}
             \cup {row(e, "dinner", r) : r \in OfferRows(choice[next(e)])}
               : e \in Eateries }

DishesOf(menu, e, b) == {r \in menu : r.eatery = e /\ r.bucket = b}

\* the k best-scored rows
RECURSIVE TopDishes(_, _)
TopDishes(rows, k) ==
  IF k = 0 \/ rows = {} THEN {}
  ELSE LET best == CHOOSE r \in rows : \A x \in rows : x.score <= r.score
       IN {best} \cup TopDishes(rows \ {best}, k - 1)

RECURSIVE SumScores(_)
SumScores(rows) ==
  IF rows = {} THEN 0
  ELSE LET r == CHOOSE x \in rows : TRUE
       IN r.score + SumScores(rows \ {r})

Variety(rows) == Cardinality(UNION {r.ingredients : r \in rows})

\* 0.85 * mean(top 3 dish scores) + 0.15 * ingredient_variety_bonus, times 600
\* (the mean is over 1, 2 or 3 dishes); e serves at least one dish in b
EateryScore(menu, e, b) ==
  LET top == TopDishes(DishesOf(menu, e, b), TopDishCount)
  IN 85 * SumScores(top) * (6 \div Cardinality(top)) + 15 * 6 * Variety(top)

\* x ranks before y: higher score, then more distinct ingredients, then name
Before(menu, b, x, y) ==
  LET sx == EateryScore(menu, x, b)
      sy == EateryScore(menu, y, b)
      vx == Variety(DishesOf(menu, x, b))
      vy == Variety(DishesOf(menu, y, b))
  IN \/ sx > sy
     \/ sx = sy /\ vx > vy
     \/ sx = sy /\ vx = vy /\ NameRank(x) < NameRank(y)

\* the k first of S in that order
RECURSIVE RankedEateries(_, _, _, _)
RankedEateries(menu, b, S, k) ==
  IF k = 0 \/ S = {} THEN << >>
  ELSE LET best == CHOOSE x \in S : \A y \in S \ {x} : Before(menu, b, x, y)
       IN <<best>> \o RankedEateries(menu, b, S \ {best}, k - 1)

\* the eatery of each of the best dishes of the bucket, one entry per dish
RECURSIVE EateriesOfTopRows(_, _)
EateriesOfTopRows(rows, k) ==
  IF k = 0 \/ rows = {} THEN << >>
  ELSE LET best == CHOOSE r \in rows : \A x \in rows : x.score <= r.score
       IN <<best.eatery>> \o EateriesOfTopRows(rows \ {best}, k - 1)

Aggregate_PerDish(menu) ==
  [b \in Buckets |->
     EateriesOfTopRows({r \in menu : r.bucket = b}, TopEateryCount)]

\* the picks of every bucket
Aggregate(menu) ==
  [b \in Buckets |->
     RankedEateries(menu, b, {e \in Eateries : DishesOf(menu, e, b) # {}},
                    TopEateryCount)]

AggregatorInputs ==
  { [stage |-> "aggregate", choice |-> c, out |-> << >>] :
      c \in [Eateries -> OfferKinds] }

RunAggregator ==
  /\ pipe.stage = "aggregate" /\ pipe.out = << >>
  /\ pipe' = [pipe EXCEPT !.out = Aggregate(MenuOf(pipe.choice))]
  /\ UNCHANGED storevars

\* --------------------------------------------- 4.7 Cold-Start Resolver
\* the eateries on the day's menu
MenuEateries == {"becker", "cook"}
\* the collaborator is asked for three picks per meal
PicksPerMeal == 3
\* one item of a returned picks list: a pick of an eatery on the menu, a pick
\* of an eatery that is not on it, or an item that is not a pick at all
PickEntries ==
  {[wellFormed |-> TRUE, eatery |-> e] : e \in MenuEateries \cup {"nowhere"}}
    \cup {[wellFormed |-> FALSE, eatery |-> ""]}

RECURSIVE PickLists(_)
PickLists(n) ==
  IF n = 0 THEN {<< >>}
  ELSE LET shorter == PickLists(n - 1)
       IN shorter \cup {Append(l, p) : l \in shorter, p \in PickEntries}

\* what comes back for one bucket: JSON that parses, with its picks, or text
\* that does not parse at all
ColdStartResponses ==
  {[parsed |-> TRUE, picks |-> l] : l \in PickLists(PicksPerMeal)}
    \cup {[parsed |-> FALSE, picks |-> << >>]}

ValidPick(p, menu) == p.wellFormed /\ p.eatery \in menu

\* walks the list in order and keeps a pick when it is well formed, names an
\* eatery of the menu and that eatery has not been kept already
RECURSIVE KeepValid(_, _, _)
KeepValid(picks, menu, kept) ==
  IF picks = << >> THEN kept
  ELSE LET p == Head(picks)
           keep == /\ ValidPick(p, menu)
                   /\ \A i \in DOMAIN kept : kept[i] # p.eatery
       IN KeepValid(Tail(picks), menu,
                    IF keep THEN Append(kept, p.eatery) ELSE kept)

\* a resolver that gives up on the whole bucket at the first invalid item
sanitize_result_AllOrNothing(response, menu) ==
  IF response.parsed
     /\ \A i \in DOMAIN response.picks : ValidPick(response.picks[i], menu)
  THEN KeepValid(response.picks, menu, << >>)
  ELSE << >>

\* the validated picks of one bucket; a response that does not parse gives none
sanitize_result(response, menu) ==
  IF response.parsed THEN KeepValid(response.picks, menu, << >>) ELSE << >>

ColdStartInputs ==
  { [stage |-> "coldstart", response |-> r, out |-> << >>, done |-> FALSE] :
      r \in ColdStartResponses }

\* the resolver validates the collaborator's answer for one bucket; the run
\* goes on whatever the answer was
ResolveColdStart ==
  /\ pipe.stage = "coldstart" /\ ~pipe.done
  /\ pipe' = [pipe EXCEPT !.out = sanitize_result(pipe.response, MenuEateries),
                          !.done = TRUE]
  /\ UNCHANGED storevars

StageInit ==
  StoreInit /\ pipe \in FilterInputs \cup WeightInputs \cup AggregatorInputs
                           \cup ColdStartInputs

StageNext ==
  \/ ApplyFilter
  \/ SelectWeights
  \/ RunAggregator
  \/ ResolveColdStart

StageSpec == StageInit /\ [][StageNext]_vars

\* ============================ the dish catalog: Normalizer and Resolver
\* Design document, sections 3 (Dish), 4.1, 4.2, 5 and 9; the code is in
\* recommend_daily.py, not among the sources.
\* scraped names: a dish, the same dish spelled differently, a different dish
\* that differs by a garnish note only, and an unrelated dish
RawNames == {"Tofu Bowl", " tofu  bowl", "Tofu Bowl (pork)", "Pho"}

\* 4.1: case-folded, trimmed, whitespace collapsed, garnish note dropped
NormalizedKey(raw) == IF raw = "Pho" THEN "pho" ELSE "tofu bowl"

\* the attribute-extraction collaborator's answer for a name
ExtractedIngredients(raw) ==
  IF raw = "Pho" THEN {"noodle", "beef"}
  ELSE IF raw = "Tofu Bowl (pork)" THEN {"tofu", "rice", "pork"}
  ELSE {"tofu", "rice"}

\* the embedding is a function of the ingredient list, not of the name
EmbeddingOf(ingredients) == <<"vector of", ingredients>>
NoEmbedding == <<"none", {}>>

\* 4.2: what the Resolver has to write for a name; a failed batch degrades
\* to the defaults and no embedding
ResolvedRow(raw, ok) ==
  [key |-> NormalizedKey(raw), source_name |-> raw,
   ingredients |-> IF ok THEN ExtractedIngredients(raw) ELSE {},
   embedding |-> IF ok THEN EmbeddingOf(ExtractedIngredients(raw))
                 ELSE NoEmbedding]

HasKey(catalog, key) == \E r \in catalog : r.key = key

\* the write replaces the entry of a key that has one
CatalogUpsert_Overwrite(catalog, row) ==
  {r \in catalog : r.key # row.key} \cup {row}

\* the write adds a row whether or not the key has one
CatalogUpsert_AlwaysInsert(catalog, row) == catalog \cup {row}

\* the store's atomic write keyed by normalized_key: the first writer claims
\* the key, a write to a claimed key leaves the entry as it is
CatalogUpsert(catalog, row) ==
  IF HasKey(catalog, row.key) THEN catalog ELSE catalog \cup {row}

\* pending: the batch of new dishes, name -> not resolved yet, or the row to
\* write
Unresolved == [key |-> "none"]

\* scoring: the run has gone on to per-user scoring; scorable: the dishes
\* its latest scoring took up
CatalogStart ==
  [stage |-> "catalog", catalog |-> {}, pending |-> [n \in {} |-> Unresolved],
   last |-> [name |-> "", is_new |-> FALSE],
   scoring |-> FALSE, scorable |-> {}]

\* 4.1: the Normalizer's lookup; a miss puts the name into the batch
Lookup(raw) ==
  /\ pipe.stage = "catalog"
  /\ LET hit == HasKey(pipe.catalog, NormalizedKey(raw))
     IN pipe' = [pipe EXCEPT
                   !.last = [name |-> raw, is_new |-> ~hit],
                   !.pending =
                      IF hit \/ raw \in DOMAIN pipe.pending THEN pipe.pending
                      ELSE [n \in DOMAIN pipe.pending \cup {raw} |->
                              IF n = raw THEN Unresolved ELSE pipe.pending[n]]]
  /\ UNCHANGED storevars

\* 4.2: the collaborator calls for one dish of the batch, retries included;
\* ok = FALSE is the fallback to defaults
Resolve(raw, ok) ==
  /\ pipe.stage = "catalog"
  /\ raw \in DOMAIN pipe.pending /\ pipe.pending[raw] = Unresolved
  /\ pipe' = [pipe EXCEPT !.pending[raw] = ResolvedRow(raw, ok)]
  /\ UNCHANGED storevars

\* the catalog write of one dish; it stays in the batch, so the write can be
\* issued again (at-least-once)
WriteDish(raw) ==
  /\ pipe.stage = "catalog"
  /\ raw \in DOMAIN pipe.pending /\ pipe.pending[raw] # Unresolved
  /\ pipe' = [pipe EXCEPT
                !.catalog = CatalogUpsert(pipe.catalog, pipe.pending[raw])]
  /\ UNCHANGED storevars

\* the dish leaves the batch: its write was acknowledged, or the run ended
\* (a later run looks the name up again)
Leave(raw) ==
  /\ pipe.stage = "catalog"
  /\ raw \in DOMAIN pipe.pending
  /\ pipe' = [pipe EXCEPT
                !.pending = [n \in DOMAIN pipe.pending \ {raw} |->
                               pipe.pending[n]]]
  /\ UNCHANGED storevars

EntryOf(catalog, raw) == CHOOSE r \in catalog : r.key = NormalizedKey(raw)

\* a run that goes on as soon as the collaborator calls of the batch returned,
\* whether or not their rows are written
CatalogReady_Resolved(catalog, pending) ==
  \A raw \in DOMAIN pending : pending[raw] # Unresolved

\* 3, 2: the catalog is populated for the day, every dish of the day's menu
\* has its entry
CatalogReady(catalog, pending) ==
  \A raw \in RawNames : HasKey(catalog, NormalizedKey(raw))

\* 2, 4.2: per-user scoring starts; a dish whose entry has no embedding is
\* left out of hybrid scoring
StartScoring ==
  /\ pipe.stage = "catalog" /\ ~pipe.scoring
  /\ CatalogReady(pipe.catalog, pipe.pending)
  /\ pipe' = [pipe EXCEPT
                !.scoring = TRUE,
                !.scorable =
                   {raw \in RawNames :
                      /\ HasKey(pipe.catalog, NormalizedKey(raw))
                      /\ EntryOf(pipe.catalog, raw).embedding # NoEmbedding}]
  /\ UNCHANGED storevars

\* the day's scoring is over; the next scheduled run begins with the scrape
EndScoring ==
  /\ pipe.stage = "catalog" /\ pipe.scoring
  /\ pipe' = [pipe EXCEPT !.scoring = FALSE]
  /\ UNCHANGED storevars

CatalogInit == StoreInit /\ pipe = CatalogStart

CatalogNext ==
  \/ \E raw \in RawNames : Lookup(raw)
  \/ \E raw \in RawNames, ok \in BOOLEAN : Resolve(raw, ok)
  \/ \E raw \in RawNames : WriteDish(raw)
  \/ \E raw \in RawNames : Leave(raw)
  \/ StartScoring
  \/ EndScoring

CatalogSpec == CatalogInit /\ [][CatalogNext]_vars

\* ================================= the subscription Worker and its KV
\* worker/src/index.js as of the KV version (part_001): the subscriber set is
\* the keys "sub:<email>" of the SUBSCRIBERS namespace.  Each await on KV is
\* one step; handleConfirm reads the key and writes it in two steps.
MaxWorkerRequests == 3

\* addresses as they arrive, and (...).trim().toLowerCase() of them
WorkerEmails == {"a@x.edu", "b@x.edu"}
normalise(raw) == IF raw = " A@X.EDU" THEN "a@x.edu" ELSE raw
\* /^[^\s@]+@[^\s@]+\.[^\s@]+$/
looksLikeEmail(email) == email \in WorkerEmails

SubscribeInputs == WorkerEmails \cup {" A@X.EDU", "", "not an address"}

\* query strings of confirm and unsubscribe links: the mailed ones, one with
\* the address spelled as typed, and links with a missing or foreign token
LinkInputs ==
  { [email |-> e, token |-> hmacSign(e)] : e \in WorkerEmails }
  \cup { [email |-> " A@X.EDU", token |-> hmacSign("a@x.edu")],
         [email |-> "a@x.edu", token |-> hmacSign("b@x.edu")],
         [email |-> "a@x.edu", token |-> ""],
         [email |-> "", token |-> hmacSign("a@x.edu")] }

WorkerStart ==
  [stage |-> "worker", kv |-> {}, sent |-> {}, confirming |-> {}, n |-> 0,
   last |-> [op |-> "none", email |-> "", token |-> "", status |-> "none"]]

Answer(op, email, token, status) ==
  [op |-> op, email |-> email, token |-> token, status |-> status]

\* the link checks of handleConfirm and handleUnsubscribe without the
\* signature check
linkAdmitted_NoVerify(email, token) == email # "" /\ token # ""

\* handleConfirm 224-237, handleUnsubscribe 269-282: both parameters present
\* and the token verifies for the address
linkAdmitted(email, token) ==
  email # "" /\ token # "" /\ hmacVerify(email, token)

\* handleSubscribe: validates, looks the key up, dispatches the verification
\* mail; it has no KV write
handleSubscribe(raw, dispatchOk) ==
  /\ pipe.stage = "worker" /\ pipe.n < MaxWorkerRequests
  /\ LET email == normalise(raw)
         status == IF ~looksLikeEmail(email) THEN "400"
                   ELSE IF email \in pipe.kv THEN "already"
                   ELSE IF ~dispatchOk THEN "500"
                   ELSE "check inbox"
     IN pipe' = [pipe EXCEPT
                   !.n = @ + 1,
                   !.sent = IF status = "check inbox" THEN @ \cup {email} ELSE @,
                   !.last = Answer("subscribe", raw, "", status)]
  /\ UNCHANGED storevars

\* handleConfirm up to the KV read: a link that is admitted for an address
\* not yet in KV goes on to the write
handleConfirm(q) ==
  /\ pipe.stage = "worker" /\ pipe.n < MaxWorkerRequests
  /\ LET email == normalise(q.email)
         status == IF email = "" \/ q.token = "" THEN "400"
                   ELSE IF ~linkAdmitted(email, q.token) THEN "403"
                   ELSE IF email \in pipe.kv THEN "already"
                   ELSE "writing"
     IN pipe' = [pipe EXCEPT
                   !.n = @ + 1,
                   !.confirming = IF status = "writing" THEN @ \cup {q} ELSE @,
                   !.last = Answer("confirm", q.email, q.token, status)]
  /\ UNCHANGED storevars

\* handleConfirm 248-251: SUBSCRIBERS.put("sub:<email>", ...)
handleConfirmPut(q) ==
  /\ pipe.stage = "worker" /\ q \in pipe.confirming
  /\ pipe' = [pipe EXCEPT
                !.kv = @ \cup {normalise(q.email)},
                !.confirming = @ \ {q},
                !.last = Answer("confirm", q.email, q.token, "subscribed")]
  /\ UNCHANGED storevars

\* handleUnsubscribe: SUBSCRIBERS.delete("sub:<email>") for an admitted link
handleUnsubscribe(q) ==
  /\ pipe.stage = "worker" /\ pipe.n < MaxWorkerRequests
  /\ LET email == normalise(q.email)
         status == IF email = "" \/ q.token = "" THEN "400"
                   ELSE IF ~linkAdmitted(email, q.token) THEN "403"
                   ELSE "unsubscribed"
     IN pipe' = [pipe EXCEPT
                   !.n = @ + 1,
                   !.kv = IF status = "unsubscribed" THEN @ \ {email} ELSE @,
                   !.last = Answer("unsubscribe", q.email, q.token, status)]
  /\ UNCHANGED storevars

WorkerInit == StoreInit /\ pipe = WorkerStart

WorkerNext ==
  \/ \E raw \in SubscribeInputs, dispatchOk \in BOOLEAN :
       handleSubscribe(raw, dispatchOk)
  \/ \E q \in LinkInputs : handleConfirm(q)
  \/ \E q \in LinkInputs : handleConfirmPut(q)
  \/ \E q \in LinkInputs : handleUnsubscribe(q)

WorkerSpec == WorkerInit /\ [][WorkerNext]_vars


\* ============================== the Dashboard's preference form (client)
\* Dashboard.jsx: the form's React state and savePrefs, one step per await.
\* The PATCH itself is the server's ProfilePatch; here only its outcome as
\* the page sees it matters.
FormCuisines == {"thai", "korean"}
FormDietary == {"vegan", "halal"}

DashboardStart ==
  [stage |-> "dashboard", pc |-> "idle", saving |-> FALSE, saveMsg |-> "none",
   subscribed |-> TRUE, cuisineWeights |-> EmptyWeights, dietary |-> {}]

\* Dashboard.jsx 166: the subscription switch
toggleSubscribed ==
  /\ pipe.stage = "dashboard"
  /\ pipe' = [pipe EXCEPT !.subscribed = ~@]
  /\ UNCHANGED storevars

\* Dashboard.jsx 182: a cuisine chip
toggleCuisine(opt) ==
  /\ pipe.stage = "dashboard"
  /\ pipe' = [pipe EXCEPT !.cuisineWeights = toggle(@, opt)]
  /\ UNCHANGED storevars

\* Dashboard.jsx 121-125
toggleDietary(val) ==
  /\ pipe.stage = "dashboard"
  /\ pipe' = [pipe EXCEPT
                !.dietary = IF val \in @ THEN @ \ {val} ELSE @ \cup {val}]
  /\ UNCHANGED storevars

\* savePrefs 84-86, started by the Save button, which is disabled while
\* saving is true (209)
savePrefs ==
  /\ pipe.stage = "dashboard" /\ pipe.pc = "idle" /\ ~pipe.saving
  /\ pipe' = [pipe EXCEPT !.saving = TRUE, !.saveMsg = "none",
                          !.pc = "getToken"]
  /\ UNCHANGED storevars

\* savePrefs 86-87: getToken resolves; without a session token the function
\* returns
savePrefsToken(hasToken) ==
  /\ pipe.stage = "dashboard" /\ pipe.pc = "getToken"
  /\ pipe' = [pipe EXCEPT !.pc = IF hasToken THEN "fetch" ELSE "idle"]
  /\ UNCHANGED storevars

FetchOutcomes == {"ok", "http error", "thrown"}

\* savePrefs 89-106: the fetch settles; try, catch and finally
savePrefsFetch(outcome) ==
  /\ pipe.stage = "dashboard" /\ pipe.pc = "fetch"
  /\ pipe' = [pipe EXCEPT
                !.saveMsg = IF outcome = "ok" THEN "Saved!"
                            ELSE "Failed to save.",
                !.saving = FALSE,
                !.pc = "idle"]
  /\ UNCHANGED storevars

DashboardInit == StoreInit /\ pipe = DashboardStart

DashboardNext ==
  \/ toggleSubscribed
  \/ \E opt \in FormCuisines : toggleCuisine(opt)
  \/ \E val \in FormDietary : toggleDietary(val)
  \/ savePrefs
  \/ \E hasToken \in BOOLEAN : savePrefsToken(hasToken)
  \/ \E outcome \in FetchOutcomes : savePrefsFetch(outcome)

DashboardSpec == DashboardInit /\ [][DashboardNext]_vars

\* ======================================================== the claims
\* steps of the handlers, told from the states before and after
RatingWritten(u) ==        \* rate.js 48-51 succeeded for u
  u \notin DOMAIN req /\ u \in DOMAIN req' /\ req'[u].op = "rate"
RateAnswered(u) ==         \* rate.js 58-64 ran for u
  u \in DOMAIN req /\ req[u].op = "rate" /\ u \notin DOMAIN req'
PrefsWritten(u) ==         \* preferences.js 17-29 succeeded for u
  \/ u \notin DOMAIN req /\ u \in DOMAIN req' /\ req'[u].op = "preferences"
  \/ \E form \in Forms : PrefsPost(u, form, << >>, {}, TRUE)
PatchPrefsWritten(u) ==    \* part_006 33-35 succeeded for u
  /\ resp' = [op |-> "profile", status |-> "ok"]
  /\ \/ \E body \in PatchBodies :
          /\ nreq' = nreq + 1 /\ "subscribed" \notin DOMAIN body
          /\ ProfilePatch(u, body, TRUE)
     \/ /\ u \in DOMAIN req /\ req[u].op = "profile" /\ u \notin DOMAIN req'
        /\ DOMAIN req[u].body \cap PrefFields # {}
OnboardingRatingsWritten(u) ==   \* preferences.js 43-45 ran for u
  u \in DOMAIN req /\ req[u].op = "preferences" /\ u \notin DOMAIN req'
RatingDeletedBy(u) ==      \* ratings.js 46-49 succeeded for u
  \E r \in ratings : r \notin ratings' /\ RatingsDelete(u, r.id, TRUE)

StaleNow(table, u) == u \in DOMAIN table /\ table[u].vector_stale

\* C1: after every successful rating write through GET /api/rate and every
\* successful preference write through POST /api/preferences or PATCH
\* /api/profile (with a preference field) the user's vector_stale is true, and
\* it stays true until the Builder's write-back.
C1_StaleAfterEveryWrite ==
  [][ \A u \in Users :
        /\ RateAnswered(u) => StaleNow(prefs', u)
        /\ PrefsWritten(u) => StaleNow(prefs', u)
        /\ PatchPrefsWritten(u) => StaleNow(prefs', u)
        /\ (StaleNow(prefs, u) /\ ~StaleNow(prefs', u)) => BuilderWrite(u) ]_vars

\* C2: when the scorer is about to score for u, the run either loaded the
\* vector with vector_stale false or has rebuilt it and cleared the flag: a
\* user whose flag was true at the start of processing is scored only after
\* the Builder's write-back.
C2_ScoreOnlyAfterRebuild ==
  \A u \in DOMAIN run :
     run[u].pc = "score" =>
       /\ run[u].vec # NullVector
       /\ run[u].startStale => run[u].recomputed

C2_Witness ==
  \E u \in DOMAIN run :
     /\ run[u].pc = "score" /\ run[u].startStale /\ run[u].recomputed
     /\ ratings # {}

\* C3: whenever vector_stale is false and no rebuild of u is in progress, the
\* stored vector is the one computed from u's current ratings and current
\* initial_ingredients.
C3_VectorCurrentWhenNotStale ==
  \A u \in DOMAIN prefs :
     (/\ ~prefs[u].vector_stale
      /\ ~(u \in DOMAIN run /\ run[u].pc = "write"))
     => prefs[u].preference_vector
          = PrefVector(UserRatings(ratings, u), prefs[u].initial_ingredients)

\* C4: the ratings table holds at most one row per (user_id, dish_id,
\* menu_date), and a write to a triple that has a row keeps that one row (same
\* id) instead of adding a second.
OneRowPerTriple(table) ==
  \A r1, r2 \in table :
     (r1.user_id = r2.user_id /\ r1.dish_id = r2.dish_id
        /\ r1.menu_date = r2.menu_date) => r1 = r2

C4_OneRowPerTriple ==
  [][ /\ OneRowPerTriple(ratings')
      /\ \A r \in ratings :
           \A x \in RowsAt(ratings', r.user_id, r.dish_id, r.menu_date) :
              x.id = r.id ]_vars

\* a thumbs rating has just been written over a row that an onboarding
\* submission had created
C4_Witness ==
  \E u \in DOMAIN req :
     /\ req[u].op = "rate"
     /\ \E r \in RowsAt(ratings, u, req[u].dish_id, req[u].menu_date) :
          r.strength # StrengthUnit
     /\ Cardinality(ratings) = 1 /\ nextId = 2

\* C5: every row POST /api/preferences writes has direction +1 exactly when
\* score >= 6, else -1, and strength |score - 5.5| / 4.5 inside (0, 1].
C5_OnboardingStrengthInRange ==
  [][ \A u \in Users :
        (OnboardingRatingsWritten(u) /\ ratings' # ratings) =>
          \A i \in DOMAIN req[u].dish_ratings :
             \A r \in RowsAt(ratings', u, req[u].dish_ratings[i].dish_id, Today) :
                /\ r.rating = IF req[u].dish_ratings[i].score2 >= 12 THEN 1 ELSE -1
                /\ r.strength = RatingRow(req[u].dish_ratings[i]).strength
                /\ 0 < r.strength /\ r.strength <= StrengthUnit ]_vars

\* C6: after a successful thumbs rating the row of that triple has direction
\* +1 for up, -1 for down, and strength exactly 1.0, whether or not the triple
\* had a row before.
C6_ThumbsStrengthOne ==
  [][ \A u \in Users :
        RatingWritten(u) =>
          \E r \in RowsAt(ratings', u, req'[u].dish_id, req'[u].menu_date) :
             /\ r.rating = IF req'[u].rating = "up" THEN 1 ELSE -1
             /\ r.strength = StrengthUnit ]_vars

\* C7: a stored rating's direction and strength change, or the row goes, only
\* when its owner deletes it or explicitly rates that triple again: by a
\* thumbs link for the triple, or by an onboarding submission in which the
\* user chose a score for the dish.
ExplicitlyRerated(r) ==
  \/ /\ RatingWritten(r.user_id)
     /\ req'[r.user_id].dish_id = r.dish_id
     /\ req'[r.user_id].menu_date = r.menu_date
  \/ /\ OnboardingRatingsWritten(r.user_id)
     /\ r.dish_id \in req[r.user_id].explicit
     /\ r.menu_date = Today

C7_RatingsChangeOnlyExplicitly ==
  [][ \A r \in ratings :
        r \notin ratings' =>
          IF \E x \in ratings' : x.id = r.id
          THEN ExplicitlyRerated(r)
          ELSE RatingDeletedBy(r.user_id) ]_vars

\* C8: a rating event (both steps of GET /api/rate for u) leaves every column
\* of u's existing user_preferences row but vector_stale as it was, sets that
\* flag to true if it touches it, and leaves every other user's preferences
\* and ratings alone.
C8_RateTouchesOnlyStaleFlag ==
  [][ \A u \in Users :
        (RatingWritten(u) \/ RateAnswered(u)) =>
          /\ u \in DOMAIN prefs =>
               /\ u \in DOMAIN prefs'
               /\ \A c \in PrefCols \ {"vector_stale"} :
                     prefs'[u][c] = prefs[u][c]
               /\ prefs'[u].vector_stale \/ prefs'[u] = prefs[u]
          /\ \A v \in Users \ {u} :
               /\ (v \in DOMAIN prefs) = (v \in DOMAIN prefs')
               /\ v \in DOMAIN prefs => prefs'[v] = prefs[v]
               /\ UserRatings(ratings', v) = UserRatings(ratings, v)
          /\ profiles' = profiles ]_vars

\* a thumbs request has been answered for a user whose row held chosen weights,
\* ingredients and restrictions
C8_Witness ==
  \E u \in DOMAIN prefs :
     /\ resp = [op |-> "rate", status |-> "liked"]
     /\ u \notin DOMAIN req
     /\ prefs[u].cuisine_weights # EmptyWeights
     /\ prefs[u].initial_ingredients # {}
     /\ prefs[u].dietary_restrictions # {}
     /\ prefs[u].vector_stale
     /\ UserRatings(ratings, u) # {}

\* C9: only the Builder's write-back sets vector_stale to false or changes
\* preference_vector: every other step keeps the vector of every row, never
\* turns the flag from true to false, and creates rows with a null vector and
\* a true flag only.
C9_OnlyBuilderClearsOrWritesVector ==
  [][ \A u \in Users :
        \/ BuilderWrite(u)
        \/ /\ u \in DOMAIN prefs =>
                /\ u \in DOMAIN prefs'
                /\ prefs'[u].preference_vector = prefs[u].preference_vector
                /\ prefs[u].vector_stale => prefs'[u].vector_stale
           /\ (u \notin DOMAIN prefs /\ u \in DOMAIN prefs') =>
                /\ prefs'[u].preference_vector = NullVector
                /\ prefs'[u].vector_stale ]_vars

\* a web request has written the row of a user whose vector the Builder had
\* stored: the vector is still there and the flag is true again
C9_Witness ==
  \E u \in DOMAIN prefs :
     /\ prefs[u].preference_vector # NullVector
     /\ prefs[u].vector_stale
     /\ resp.op \in {"preferences", "profile", "rate"}
     /\ resp.status \in {"ok", "liked", "disliked"}
     /\ nreq = 2

\* C10: a user_preferences row comes into being only by the user's
\* POST /api/preferences: no other step creates the row of a user who has
\* none.
C10_RowOnlyFromOnboarding ==
  [][ \A u \in Users :
        (u \notin DOMAIN prefs /\ u \in DOMAIN prefs') => PrefsWritten(u) ]_vars

\* C11: GET /api/rate changes no stored state unless email, token, menu_id and
\* date are present, rating is up or down, the token is the HMAC of the email,
\* the email has a profile and menu_id has a daily_menus row; every request
\* that fails one of these is answered with an error, nothing written before.
RateLinkGood(q) ==
  /\ trimLower(q.email) # "" /\ q.token # "" /\ q.menu_id # "" /\ q.date # ""
  /\ q.rating \in {"up", "down"}
  /\ q.token = hmacSign(trimLower(q.email))
  /\ trimLower(q.email) \in Users
  /\ \E m \in DailyMenus : m.id = q.menu_id

C11_RateValidatesBeforeWriting ==
  [][ /\ (nreq' # nreq /\ (resp'.op = "rate" \/ req' # req)) =>
           \A q \in RateInputs, ok \in BOOLEAN :
             (~RateLinkGood(q) /\ RateRequest(q, ok)) =>
               /\ UNCHANGED <<profiles, prefs, ratings, nextId, req>>
               /\ resp' = [op |-> "rate", status |-> "error"]
      /\ \A u \in Users :
           (u \in DOMAIN req' /\ req'[u].op = "rate" /\ u \notin DOMAIN req) =>
             \E q \in RateInputs :
                RateLinkGood(q) /\ trimLower(q.email) = u /\ RateRequest(q, TRUE)
    ]_vars

\* a forged or incomplete link has been refused while the store held a rating
C11_Witness ==
  /\ resp = [op |-> "rate", status |-> "error"]
  /\ ratings # {}
  /\ nreq = 2

\* C12: GET /api/unsubscribe with a token that verifies for the email sets
\* subscribed to false for exactly the profile with that email, a second time
\* changes nothing more, and touches no other profile, no rating and no
\* preferences; with a missing or invalid token no profile changes.
UnsubLinkGood(q) ==
  /\ trimLower(q.email) # "" /\ q.token # ""
  /\ q.token = hmacSign(trimLower(q.email))

C12_UnsubscribeExactlyOne ==
  [][ (nreq' # nreq /\ resp'.op = "unsubscribe") =>
      \A q \in UnsubInputs :
        /\ (Unsubscribe(q, TRUE) /\ UnsubLinkGood(q)) =>
             /\ \A u \in Users :
                  profiles'[u] =
                    IF u = trimLower(q.email)
                    THEN [profiles[u] EXCEPT !.subscribed = FALSE]
                    ELSE profiles[u]
             /\ (\A u \in Users : u = trimLower(q.email) =>
                    ~profiles[u].subscribed) => profiles' = profiles
             /\ UNCHANGED <<prefs, ratings>>
             /\ resp'.status = "success"
        /\ \A ok \in BOOLEAN :
             (Unsubscribe(q, ok) /\ ~UnsubLinkGood(q)) =>
                UNCHANGED <<profiles, prefs, ratings>>
    ]_vars

\* one user has been unsubscribed by their link, the other is still subscribed
\* and the unsubscribed user's rating is still stored
C12_Witness ==
  /\ resp = [op |-> "unsubscribe", status |-> "success"]
  /\ \E u, v \in Users :
       /\ ~profiles[u].subscribed /\ profiles[v].subscribed
       /\ UserRatings(ratings, u) # {}

\* C13: every value stored in cuisine_weights, flavor_weights and
\* method_weights is positive, whatever chips were toggled and whatever
\* POST /api/preferences and PATCH /api/profile requests succeeded.
WeightCols == {"cuisine_weights", "flavor_weights", "method_weights"}

C13_StoredWeightsPositive ==
  \A u \in DOMAIN prefs : \A c \in WeightCols :
     \A t \in DOMAIN prefs[u][c] : prefs[u][c][t] > 0

\* C14: after a successful sign-in AuthCallback sends a user without a
\* user_preferences row to /onboarding and a user with one to /dashboard; with
\* an error or no access token in the callback, or a failed setSession, it
\* navigates to neither.
C14_CallbackRoutesByPrefs ==
  [][ \A u \in Users, hash \in CallbackHashes, sessionOk, selectOk \in BOOLEAN :
        (nreq' # nreq /\ AuthCallback(u, hash, sessionOk, selectOk)) =>
          resp'.status = IF hash # "token" \/ ~sessionOk THEN "none"
                         ELSE IF u \in DOMAIN prefs THEN "/dashboard"
                         ELSE "/onboarding" ]_vars

\* C15: the admin endpoints answer 401 without a valid token, 403 to an
\* authenticated user whose email is not in the comma-separated ADMIN_EMAILS,
\* and let a user whose email is in that list through; they return data and
\* read the database only for such a user.
AdminsOf(env) ==
  {u \in Users : \E l \in AdminLists :
                    Join(l) = env.ADMIN_EMAILS /\ \E i \in DOMAIN l : l[i] = u}

C15_AdminOnly ==
  [][ \A who \in Users \cup {NoUser}, env \in AdminEnvs,
         endpoint \in {"menus", "stats"}, date \in {"", "day1"}, ok \in BOOLEAN :
        (nreq' # nreq /\ AdminGet(who, env, endpoint, date, ok)) =>
          /\ (resp'.status = "401") = (who = NoUser)
          /\ (resp'.status = "403") = (who \in Users \ AdminsOf(env))
          /\ (resp'.status = "200" \/ resp'.dbRead) => who \in AdminsOf(env)
    ]_vars

\* C16: the Dietary Filter answers ineligible exactly when dietary_attrs is
\* non-empty and holds a tag that contradicts one of the restrictions: a dish
\* with empty attrs is eligible under every restriction set, and attrs
\* {contains-dairy} are ineligible under {vegan}, eligible under {gluten-free}.
C16_FilterIneligibleIffContradiction ==
  (pipe.stage = "filter" /\ pipe.out # "none") =>
    /\ (pipe.out = "ineligible") =
         (/\ pipe.attrs # {}
          /\ \E a \in pipe.attrs, r \in pipe.restrictions :
                a \in ContradictionTable[r])
    /\ pipe.out \in {"eligible", "ineligible"}
    /\ pipe.attrs = {} => pipe.out = "eligible"
    /\ (pipe.attrs = {"contains-dairy"} /\ pipe.restrictions = {"vegan"})
         => pipe.out = "ineligible"
    /\ (pipe.attrs = {"contains-dairy"} /\ pipe.restrictions = {"gluten-free"})
         => pipe.out = "eligible"

\* a dish of unknown attrs has passed the filter of a vegan user
C16_Witness ==
  /\ pipe.stage = "filter" /\ pipe.out = "eligible"
  /\ pipe.attrs = {} /\ pipe.restrictions = {"vegan"}

\* C17: the weight quadruple (w_cos, w_flavor, w_method, w_cuisine) is a
\* function of the rating count n alone: (0.40, 0.20, 0.15, 0.25) for n in
\* 0..14, (0.60, 0.13, 0.09, 0.18) for n in 15..39, (0.75, 0.08, 0.07, 0.10)
\* for n >= 40.
C17_WeightsByCountOnly ==
  (pipe.stage = "weights" /\ pipe.out # << >>) =>
    pipe.out = IF pipe.n <= 14 THEN <<40, 20, 15, 25>>
               ELSE IF pipe.n <= 39 THEN <<60, 13, 9, 18>>
               ELSE <<75, 8, 7, 10>>

\* the lookup has run at the boundary n = 15 for a user with tag weights
C17_Witness ==
  /\ pipe.stage = "weights" /\ pipe.n = 15 /\ pipe.tagged
  /\ pipe.out = <<60, 13, 9, 18>>

\* C18: for every menu the Eatery Aggregator gives at most 4 eateries per meal
\* bucket and never the same eatery twice within a bucket.
C18_AtMostFourDistinct ==
  (pipe.stage = "aggregate" /\ pipe.out # << >>) =>
    \A b \in Buckets :
       /\ Len(pipe.out[b]) <= 4
       /\ \A i, j \in DOMAIN pipe.out[b] :
             pipe.out[b][i] = pipe.out[b][j] => i = j

\* five eateries served lunch, one of them several dishes, and four were picked
C18_Witness ==
  /\ pipe.stage = "aggregate" /\ pipe.out # << >>
  /\ \A e \in Eateries : pipe.choice[e] # "closed"
  /\ \E e \in Eateries : pipe.choice[e] = "buffet"
  /\ Len(pipe.out["lunch"]) = 4

\* C19: looking up a name whose normalized_key is in the catalog adds no
\* entry and changes nothing; the catalog has one entry per normalized_key,
\* and once a pass has written every scraped key, no retry of the batch, in
\* any order or in a later run, changes the catalog.
OneEntryPerKey(catalog) ==
  \A r1, r2 \in catalog : r1.key = r2.key => r1 = r2

AllKeysWritten(catalog) ==
  \A raw \in RawNames : HasKey(catalog, NormalizedKey(raw))

C19_ResolveTwiceIsNoOp ==
  [][ pipe.stage = "catalog" =>
        /\ OneEntryPerKey(pipe'.catalog)
        /\ \A raw \in RawNames :
             (Lookup(raw) /\ HasKey(pipe.catalog, NormalizedKey(raw))) =>
                /\ pipe'.catalog = pipe.catalog
                /\ pipe'.pending = pipe.pending
                /\ ~pipe'.last.is_new
        /\ AllKeysWritten(pipe.catalog) => pipe'.catalog = pipe.catalog
    ]_vars

\* the batch is being written again after a pass that wrote every key
C19_Witness ==
  /\ pipe.stage = "catalog"
  /\ AllKeysWritten(pipe.catalog)
  /\ \E raw \in DOMAIN pipe.pending :
       /\ pipe.pending[raw] # Unresolved
       /\ pipe.pending[raw] \notin pipe.catalog

\* C20: when two distinct dishes share a normalized_key, the entry of the key
\* holds the attributes and embedding of the dish written first, and no later
\* write, in any order, interleaving or retry, replaces them.
C20_FirstWriterWins ==
  [][ pipe.stage = "catalog" =>
        /\ \A r \in pipe.catalog : r \in pipe'.catalog
        /\ \A raw \in RawNames :
             (WriteDish(raw) /\ ~HasKey(pipe.catalog, NormalizedKey(raw))) =>
                pipe.pending[raw] \in pipe'.catalog
    ]_vars

\* the key is held by the dish without pork while the dish with pork, resolved
\* too, is still in the batch
C20_Witness ==
  /\ pipe.stage = "catalog"
  /\ \E r \in pipe.catalog :
       r.key = "tofu bowl" /\ r.ingredients = {"tofu", "rice"}
  /\ "Tofu Bowl (pork)" \in DOMAIN pipe.pending
  /\ pipe.pending["Tofu Bowl (pork)"] # Unresolved
  /\ pipe.pending["Tofu Bowl (pork)"].ingredients = {"tofu", "rice", "pork"}
  /\ pipe.last.name = "Tofu Bowl (pork)" /\ ~pipe.last.is_new

SignalOf(u) ==
  HasSignal(UserRatings(ratings, u),
            IF u \in DOMAIN prefs THEN prefs[u].initial_ingredients ELSE {})

C22_OnePathBySignal ==
  [][ \A u \in Users :
        /\ (u \notin DOMAIN run /\ u \in DOMAIN run') =>
             IF SignalOf(u)
             THEN run'[u].pc \in {"score", "write"} /\ run'[u].vec # NullVector
             ELSE run'[u].pc = "cold" /\ run'[u].vec = NullVector
        /\ (u \in DOMAIN run /\ u \in DOMAIN run') =>
             \/ run'[u].pc = run[u].pc
             \/ run[u].pc = "write" /\ run'[u].pc = "score"
    ]_vars

TokenValid(rq) ==
  normalise(rq.email) # "" /\ rq.token = hmacSign(normalise(rq.email))

C24_SubscribedOnlyByConfirm ==
  [][ pipe.stage = "worker" =>
        LET rq == pipe'.last
        IN /\ \A e \in pipe'.kv \ pipe.kv :
                rq.op = "confirm" /\ normalise(rq.email) = e /\ TokenValid(rq)
           /\ (rq.op = "unsubscribe" /\ TokenValid(rq)) =>
                normalise(rq.email) \notin pipe'.kv
           /\ rq.op = "subscribe" => pipe'.kv = pipe.kv
           /\ ~TokenValid(rq) => pipe'.kv = pipe.kv
    ]_vars

\* an address is in the set by its confirm link, and an unsubscribe link for
\* it with a foreign or missing token has just been refused
C24_Witness ==
  /\ pipe.stage = "worker"
  /\ "a@x.edu" \in pipe.kv
  /\ pipe.last.op = "unsubscribe" /\ pipe.last.status = "403"
  /\ pipe.last.email = "a@x.edu"

\* C25: DELETE /api/ratings removes a rating only if its user_id is the
\* authenticated user's id, and then exactly the one row with the given id;
\* when rating_id is missing or not a number (400), no rating has the id (404)
\* or the rating is another user's (403), the ratings table is unchanged.
C25_DeleteOnlyOwnRow ==
  [][ (nreq' # nreq /\ resp'.op = "ratings") =>
      \A who \in Users \cup {NoUser}, raw \in RawRatingIds, ok \in BOOLEAN :
        RatingsDelete(who, parseInt(raw), ok) =>
          LET id == parseInt(raw)
              row == {r \in ratings : r.id = id}
          IN /\ ratings' \subseteq ratings
             /\ \A r \in ratings \ ratings' : r.user_id = who /\ r.id = id
             /\ resp'.status = "ok" =>
                  Cardinality(ratings \ ratings') = 1
             /\ who # NoUser =>
                  /\ (resp'.status = "400") = (id = NaN \/ id = 0)
                  /\ (resp'.status = "404") = (id # NaN /\ id # 0 /\ row = {})
                  /\ (resp'.status = "403") =
                       (\E r \in row : r.user_id # who)
             /\ resp'.status \in {"400", "401", "403", "404"} =>
                  ratings' = ratings
    ]_vars

\* a user asked to delete another user's rating and was refused: the rating
\* is still stored
C25_Witness ==
  /\ resp = [op |-> "ratings", status |-> "403"]
  /\ nreq = 2
  /\ \E r \in ratings : r.id = 1 /\ r.user_id = "u2"

\* C26: a rating deletion is a rating event: after DELETE /api/ratings has
\* removed a rating, the owner's vector_stale is true, so the next run
\* recomputes the preference vector without the deleted rating.
C26_DeleteMarksStale ==
  [][ \A u \in Users : RatingDeletedBy(u) => StaleNow(prefs', u) ]_vars

\* C27: whenever GET /api/rate answers status=liked or status=disliked, both
\* writes have taken effect, the rating row is stored and the user's
\* vector_stale is true; a failure of the rating upsert or of the staleness
\* upsert gives status=error.
C27_LikedMeansBothWritten ==
  [][ \A u \in Users :
        /\ (RateAnswered(u) /\ resp'.status \in {"liked", "disliked"}) =>
             /\ \E r \in ratings' :
                   /\ r.user_id = u /\ r.dish_id = req[u].dish_id
                   /\ r.menu_date = req[u].menu_date
                   /\ r.rating = IF resp'.status = "liked" THEN 1 ELSE -1
             /\ StaleNow(prefs', u)
        /\ RateMarkStale(u, FALSE) => resp'.status = "error"
    ]_vars

\* C28: every rating written by GET /api/rate has the dish_id of the
\* daily_menus row named by menu_id and that row's menu_date, for every
\* menu_id and date the endpoint accepts.
C28_RatingMatchesMenuRow ==
  [][ \A u \in Users :
        RatingWritten(u) =>
          \A q \in RateInputs :
            (trimLower(q.email) = u /\ RateRequest(q, TRUE)) =>
              \E m \in DailyMenus, r \in ratings' :
                 /\ m.id = q.menu_id
                 /\ r.user_id = u /\ r.dish_id = req'[u].dish_id
                 /\ r.menu_date = req'[u].menu_date
                 /\ r.dish_id = m.dish_id
                 /\ r.menu_date = m.menu_date
    ]_vars

\* C29: the token check of /api/rate and of /api/unsubscribe accepts a token
\* if and only if it is the HMAC of the trimmed, lower-cased email, so for a
\* request that is otherwise in order acceptance depends on (email, token)
\* alone, not on menu_id, date, rating or the endpoint.
TokenIsHmacOfEmail(q) == q.token = hmacSign(trimLower(q.email))

RateLinkInOrder(q) ==
  /\ q.menu_id # "" /\ q.date # "" /\ q.rating \in {"up", "down"}
  /\ trimLower(q.email) \in Users
  /\ \E m \in DailyMenus : m.id = q.menu_id

C29_AcceptanceByEmailAndTokenOnly ==
  [][ nreq' # nreq =>
        /\ \A q \in RateInputs :
             (RateLinkInOrder(q) /\ RateRequest(q, TRUE)) =>
                (trimLower(q.email) \in DOMAIN req') = TokenIsHmacOfEmail(q)
        /\ \A q \in UnsubInputs :
             (trimLower(q.email) # "" /\ Unsubscribe(q, TRUE)) =>
                (resp'.status = "success") = TokenIsHmacOfEmail(q)
    ]_vars

\* the same address and token have been accepted by both endpoints: the
\* rating link's request is between its writes, the unsubscribe link succeeded
C29_Witness ==
  /\ resp = [op |-> "unsubscribe", status |-> "success"]
  /\ \E u \in DOMAIN req : req[u].op = "rate" /\ ~profiles[u].subscribed

\* C30: every invocation of savePrefs leaves saving = false in the end, so the
\* Save button is enabled again, whatever the outcome: HTTP success, HTTP
\* failure, a thrown fetch or a missing session token.  saving is written by
\* savePrefs alone, so it is false in the end exactly if it is false whenever
\* savePrefs is not running.
C30_SavingFalseAfterSave ==
  (pipe.stage = "dashboard" /\ pipe.pc = "idle") => ~pipe.saving

====
